---------------------------- MODULE Spec2Model ----------------------------
(***************************************************************************)
(* A model of the e-mail rule engine of scripts/gmail_rules_processor.py   *)
(* (rule model, predicate evaluators, rule-set resolver, action            *)
(* dispatcher) and of the pager of gmail_fetch.py.                         *)
(*                                                                         *)
(* Text is a sequence of one-character strings.  A function's outcome is   *)
(* a record: tag "ok" with the value returned, or tag "raise" with the     *)
(* name of the exception that leaves the function.                         *)
(***************************************************************************)
EXTENDS Integers, Sequences, FiniteSets, TLC

VARIABLES
    now,         \* the wall clock, datetime.now(timezone.utc), in ticks
    s_rule,      \* evaluate_string_rule: the Rule passed in
    s_field,     \* evaluate_string_rule: the field_value passed in
    s_ret,       \* evaluate_string_rule: outcome of the last call
    d_rule,      \* evaluate_date_rule: the Rule passed in
    d_field,     \* evaluate_date_rule: the field_value passed in
    d_ret,       \* evaluate_date_rule: outcome of the call made at time now
    doc,         \* load_rules: the JSON document read from file_path
    load_ret,    \* load_rules: outcome
    ruleset,     \* main: the RuleSet that load_rules returned
    email,       \* apply_rules: the Email of the last call
    samples,     \* apply_rules: the clock at the evaluation of each rule
    ret,         \* apply_rules: outcome of the last call
    labels,      \* provider: the labels that exist, as {id, name}
    msg_labels,  \* provider: the label ids attached to each message
    x_pc,        \* execute_actions: where the call stands
    x_email,     \* execute_actions: email.message_id
    x_actions,   \* execute_actions: the action list
    x_idx,       \* execute_actions: the index of the action of the loop
    x_label_id,  \* execute_actions: label_id of the move under way
    x_calls,     \* the provider calls of the current execute_actions call
    x_exc,       \* the exception that left execute_actions, if one did
    x_runs,      \* how many times the list was executed on the e-mail
    x_errors,    \* whether the provider has raised an error so far
    x_first,     \* the provider state when the first execution returned
    f_pages,     \* provider: the pages of message ids that messages().list serves
    f_max,       \* fetch_emails: max_emails
    f_pc,        \* fetch_emails: where the call stands
    f_results,   \* fetch_emails: results, as the number of the page last served
    f_messages,  \* fetch_emails: messages
    f_emails,    \* fetch_emails: emails
    f_requests,  \* how many messages().list requests the call has made
    c_initial,   \* provider: the labels that existed before any dispatcher ran
    c_labels,    \* provider: the labels that exist, as {id, name}
    c_msg_labels, \* provider: the label ids attached to each e-mail
    c_pc,        \* execute_actions of each dispatcher: where the call stands
    c_actions,   \* execute_actions of each dispatcher: the action list
    c_idx,       \* execute_actions of each dispatcher: the action of the loop
    c_label_id,  \* execute_actions of each dispatcher: label_id of the move
    c_exc,       \* the exception that left each dispatcher's call, if one did
    c_creates,   \* how many labels().create requests were issued for each name
    c_attached,  \* the <<folder, label id>> each dispatcher's moves attached
    c_errors     \* whether the provider has failed a request of itself

strVars == <<s_rule, s_field, s_ret>>

dateVars == <<d_rule, d_field, d_ret>>

resVars == <<doc, load_ret, ruleset, email, samples, ret>>

provVars == <<labels, msg_labels>>

exeVars == <<x_pc, x_email, x_actions, x_idx, x_label_id, x_calls, x_exc,
             x_runs, x_errors, x_first>>

fetchVars == <<f_pages, f_max, f_pc, f_results, f_messages, f_emails,
               f_requests>>

parVars == <<c_initial, c_labels, c_msg_labels, c_pc, c_actions, c_idx,
             c_label_id, c_exc, c_creates, c_attached, c_errors>>

vars == <<now, strVars, dateVars, resVars, provVars, exeVars, fetchVars,
          parVars>>

\* what a component leaves alone
notStr == <<now, dateVars, resVars, provVars, exeVars, fetchVars, parVars>>
notDate == <<strVars, resVars, provVars, exeVars, fetchVars, parVars>>
notRes == <<strVars, dateVars, provVars, exeVars, fetchVars, parVars>>
notExe == <<now, strVars, dateVars, resVars, fetchVars, parVars>>
notFetch == <<now, strVars, dateVars, resVars, provVars, exeVars, parVars>>
notPar == <<now, strVars, dateVars, resVars, provVars, exeVars, fetchVars>>

---------------------------------------------------------------------------
(* Bounds of the model *)

MaxValueLen == 2
MaxFieldLen == 3
\* the largest amount of a date comparand
MaxAmount == 2
\* the longest rule list of a rule-set document
MaxRules == 2
\* the clock of the resolver stops here
MaxNow == 3
\* the longest action list handed to execute_actions
MaxActions == 3
\* the provider's mailbox: pages served, and message ids in a page
MaxPages == 2
MaxPageSize == 2
\* the largest max_emails
MaxEmails == 3
\* how many dispatcher calls run in parallel, each for an e-mail of its own
MaxDispatchers == 2
\* clock ticks in a day (the clock's resolution)
TicksPerDay == 2

---------------------------------------------------------------------------
(* The enumerations of the rule model *)

SENDER == "sender"
RECIPIENT == "recipient"
SUBJECT == "subject"
MESSAGE == "message"
RECEIVED_TIME == "received_time"

FieldName == {SENDER, RECIPIENT, SUBJECT, MESSAGE, RECEIVED_TIME}

CONTAINS == "contains"
DOES_NOT_CONTAIN == "does not contain"
EQUALS == "equals"
DOES_NOT_EQUAL == "does not equal"

StringPredicate == {CONTAINS, DOES_NOT_CONTAIN, EQUALS, DOES_NOT_EQUAL}

IS_LESS_THAN == "is less than"
IS_GREATER_THAN == "is greater than"

DatePredicate == {IS_LESS_THAN, IS_GREATER_THAN}

\* Rule.predicate: Union[StringPredicate, DatePredicate], whatever the field
RuleKind == StringPredicate \cup DatePredicate

ALL == "all"
ANY == "any"

RulePredicate == {ALL, ANY}

MARK_AS_READ == "mark_as_read"
MARK_AS_UNREAD == "mark_as_unread"
MOVE_TO_MAILBOX == "move_to_mailbox"

ActionType == {MARK_AS_READ, MARK_AS_UNREAD, MOVE_TO_MAILBOX}

\* Action.folder_name when the document gives none: Field(None, ...)
None == "None"

---------------------------------------------------------------------------
(* Outcomes *)

NoCall == [tag |-> "none", val |-> FALSE, exc |-> ""]

Return(v) == [tag |-> "ok", val |-> v, exc |-> ""]

Raise(e) == [tag |-> "raise", val |-> FALSE, exc |-> e]

\* values of the variables of a component that is not running
NoRule == [field_name |-> "", predicate |-> "", value |-> <<>>]

NoTime == [iso |-> FALSE, instant |-> 0]

StrIdle ==
    /\ s_rule = NoRule
    /\ s_field = <<>>
    /\ s_ret = NoCall

DateIdle ==
    /\ d_rule = NoRule
    /\ d_field = NoTime
    /\ d_ret = NoCall

NoDoc == [rules |-> <<>>, rule_predicate |-> "", actions |-> <<>>]

NoEmail == [message_id |-> "", sender |-> <<>>, recipient |-> <<>>,
            message |-> <<>>, received_time |-> NoTime, subject |-> <<>>]

\* outcomes of the functions that return a list
NoCallL == [tag |-> "none", val |-> <<>>, exc |-> ""]

ReturnL(v) == [tag |-> "ok", val |-> v, exc |-> ""]

RaiseL(e) == [tag |-> "raise", val |-> <<>>, exc |-> e]

ResIdle ==
    /\ doc = NoDoc
    /\ load_ret = NoCall
    /\ ruleset = NoDoc
    /\ email = NoEmail
    /\ samples = <<>>
    /\ ret = NoCallL

\* Label ids are pairs: "UNREAD", the id of the provider's system label, is
\* <<"UNREAD", 0>>, the id of the n-th label created is <<"Label", n>>, and
\* the None that stands for no id is <<"None", 0>>
UNREAD == <<"UNREAD", 0>>

NoId == <<"None", 0>>

MessageIds == {"m1"}

ExeIdle ==
    /\ labels = {}
    /\ msg_labels = [m \in MessageIds |-> {}]
    /\ x_pc = "idle"
    /\ x_email = ""
    /\ x_actions = <<>>
    /\ x_idx = 0
    /\ x_label_id = NoId
    /\ x_calls = <<>>
    /\ x_exc = ""
    /\ x_runs = 0
    /\ x_errors = FALSE
    /\ x_first = <<{}, [m \in MessageIds |-> {}]>>

FetchIdle ==
    /\ f_pages = <<>>
    /\ f_max = 0
    /\ f_pc = "idle"
    /\ f_results = 0
    /\ f_messages = <<>>
    /\ f_emails = <<>>
    /\ f_requests = 0

\* the dispatcher calls that run in parallel; dispatcher i executes the
\* action list of e-mail i
Dispatchers == 1..MaxDispatchers

ParIdle ==
    /\ c_initial = {}
    /\ c_labels = {}
    /\ c_msg_labels = [i \in Dispatchers |-> {}]
    /\ c_pc = [i \in Dispatchers |-> "idle"]
    /\ c_actions = [i \in Dispatchers |-> <<>>]
    /\ c_idx = [i \in Dispatchers |-> 0]
    /\ c_label_id = [i \in Dispatchers |-> NoId]
    /\ c_exc = [i \in Dispatchers |-> ""]
    /\ c_creates = <<>>
    /\ c_attached = [i \in Dispatchers |-> {}]
    /\ c_errors = FALSE

---------------------------------------------------------------------------
(* Text: str.lower() and the operator `in` *)

\* U+017F, LATIN SMALL LETTER LONG S: a lower-case letter whose upper case
\* is "S"
LongS == "U+017F"

Alphabet == {"a", "A", "s", "S", LongS}

\* str.lower() of one character: the upper-case letters map to their
\* lower-case letter, every other character (lower-case letters, the long
\* s, digits, blanks) maps to itself
LowerChar(c) ==
    CASE c = "A" -> "a"
      [] c = "S" -> "s"
      [] OTHER -> c

lower(s) == [i \in DOMAIN s |-> LowerChar(s[i])]

\* a in b, for str: a is a contiguous part of b
IsSubstring(a, b) ==
    \E i \in 0..(Len(b) - Len(a)) : SubSeq(b, i + 1, i + Len(a)) = a

Text(n) == UNION {[1..k -> Alphabet] : k \in 0..n}

---------------------------------------------------------------------------
(* evaluate_string_rule *)

\* Mutants of evaluate_string_rule: a negated kind that forgets to lower-case
\* the field value, and a contains that forgets to lower-case the comparand
evaluate_string_rule_rawfield(rule, field_value) ==
    CASE rule.predicate = CONTAINS ->
            Return(IsSubstring(lower(rule.value), lower(field_value)))
      [] rule.predicate = DOES_NOT_CONTAIN ->
            Return(~IsSubstring(lower(rule.value), field_value))
      [] rule.predicate = EQUALS ->
            Return(lower(rule.value) = lower(field_value))
      [] rule.predicate = DOES_NOT_EQUAL ->
            Return(lower(rule.value) # field_value)
      [] OTHER -> Raise("ValueError: Invalid string predicate")

evaluate_string_rule_rawvalue(rule, field_value) ==
    CASE rule.predicate = CONTAINS ->
            Return(IsSubstring(rule.value, lower(field_value)))
      [] rule.predicate = DOES_NOT_CONTAIN ->
            Return(~IsSubstring(lower(rule.value), lower(field_value)))
      [] rule.predicate = EQUALS ->
            Return(lower(rule.value) = lower(field_value))
      [] rule.predicate = DOES_NOT_EQUAL ->
            Return(lower(rule.value) # lower(field_value))
      [] OTHER -> Raise("ValueError: Invalid string predicate")

evaluate_string_rule(rule, field_value) ==
    CASE rule.predicate = CONTAINS ->
            Return(IsSubstring(lower(rule.value), lower(field_value)))
      [] rule.predicate = DOES_NOT_CONTAIN ->
            Return(~IsSubstring(lower(rule.value), lower(field_value)))
      [] rule.predicate = EQUALS ->
            Return(lower(rule.value) = lower(field_value))
      [] rule.predicate = DOES_NOT_EQUAL ->
            Return(lower(rule.value) # lower(field_value))
      [] OTHER -> Raise("ValueError: Invalid string predicate")

StrInit ==
    /\ now = 0
    /\ DateIdle
    /\ ResIdle
    /\ ExeIdle
    /\ FetchIdle
    /\ ParIdle
    /\ s_rule \in [field_name : {SENDER}, predicate : RuleKind,
                   value : Text(MaxValueLen)]
    /\ s_field \in Text(MaxFieldLen)
    /\ s_ret = NoCall

CallEvaluateStringRule ==
    /\ s_ret' = evaluate_string_rule(s_rule, s_field)
    /\ UNCHANGED <<s_rule, s_field, notStr>>

StrNext == CallEvaluateStringRule

SpecStr == StrInit /\ [][StrNext]_vars

---------------------------------------------------------------------------
(* evaluate_date_rule *)

DaysPerMonth == 30

Whitespace == {" "}

Digit == {"0", "1", "2", "3", "4", "5", "6", "7", "8", "9"}

DigitValue(c) ==
    CASE c = "0" -> 0 [] c = "1" -> 1 [] c = "2" -> 2 [] c = "3" -> 3
      [] c = "4" -> 4 [] c = "5" -> 5 [] c = "6" -> 6 [] c = "7" -> 7
      [] c = "8" -> 8 [] c = "9" -> 9

\* str.split(): the maximal runs of non-blank characters, in order
RECURSIVE SplitFrom(_, _, _)
SplitFrom(s, i, word) ==
    IF i > Len(s)
    THEN IF word = <<>> THEN <<>> ELSE <<word>>
    ELSE IF s[i] \in Whitespace
         THEN IF word = <<>>
              THEN SplitFrom(s, i + 1, <<>>)
              ELSE <<word>> \o SplitFrom(s, i + 1, <<>>)
         ELSE SplitFrom(s, i + 1, Append(word, s[i]))

split(s) == SplitFrom(s, 1, <<>>)

\* int(text): an optional sign, then one or more decimal digits
Unsigned(t) == IF t # <<>> /\ t[1] \in {"-", "+"} THEN Tail(t) ELSE t

IsIntLiteral(t) ==
    /\ Unsigned(t) # <<>>
    /\ \A i \in DOMAIN Unsigned(t) : Unsigned(t)[i] \in Digit

RECURSIVE DigitsValue(_)
DigitsValue(t) ==
    IF t = <<>> THEN 0
    ELSE 10 * DigitsValue(SubSeq(t, 1, Len(t) - 1)) + DigitValue(t[Len(t)])

int(t) ==
    IF t[1] = "-" THEN 0 - DigitsValue(Unsigned(t)) ELSE DigitsValue(Unsigned(t))

startswith(s, prefix) ==
    /\ Len(s) >= Len(prefix)
    /\ SubSeq(s, 1, Len(prefix)) = prefix

DAY == <<"d", "a", "y">>
MONTH == <<"m", "o", "n", "t", "h">>

\* timedelta(days=n), in ticks
timedelta(days) == days * TicksPerDay

\* Mutants of DateCompare and of MonthDelta: an inclusive "is less than",
\* and a month of 31 days
DateCompare_inclusive(predicate, age, delta) ==
    CASE predicate = IS_LESS_THAN -> Return(age <= delta)
      [] predicate = IS_GREATER_THAN -> Return(age > delta)
      [] OTHER -> Raise("ValueError: Invalid date predicate")

MonthDelta_31(amount) == timedelta(amount * 31)

\* lines 118-123: the comparison of the age with the threshold
DateCompare(predicate, age, delta) ==
    CASE predicate = IS_LESS_THAN -> Return(age < delta)
      [] predicate = IS_GREATER_THAN -> Return(age > delta)
      [] OTHER -> Raise("ValueError: Invalid date predicate")

\* line 114
MonthDelta(amount) == timedelta(amount * DaysPerMonth)

\* field_value is the text of a timestamp: either ISO-8601 text with an
\* offset, which datetime.fromisoformat turns into the instant it denotes,
\* or text that fromisoformat rejects.  current_date is the clock as read at
\* line 105.
evaluate_date_rule(rule, field_value, current_date) ==
    LET value_parts == split(rule.value) IN
    IF ~field_value.iso
    THEN Raise("ValueError: Invalid isoformat string")
    ELSE IF Len(value_parts) = 0
    THEN Raise("IndexError")
    ELSE IF ~IsIntLiteral(value_parts[1])
    THEN Raise("ValueError: invalid literal for int()")
    ELSE IF Len(value_parts) < 2
    THEN Raise("IndexError")
    ELSE LET amount == int(value_parts[1])
             unit == value_parts[2]
             age == current_date - field_value.instant
         IN  IF startswith(unit, DAY)
             THEN DateCompare(rule.predicate, age, timedelta(amount))
             ELSE IF startswith(unit, MONTH)
             THEN DateCompare(rule.predicate, age, MonthDelta(amount))
             ELSE Raise("ValueError: Invalid time unit")

\* the text of an integer, and of a comparand "<amount> <unit>"
DigitText(d) ==
    CASE d = 0 -> "0" [] d = 1 -> "1" [] d = 2 -> "2" [] d = 3 -> "3"
      [] d = 4 -> "4" [] d = 5 -> "5" [] d = 6 -> "6" [] d = 7 -> "7"
      [] d = 8 -> "8" [] d = 9 -> "9"

RECURSIVE NatText(_)
NatText(n) ==
    IF n < 10 THEN <<DigitText(n)>>
    ELSE Append(NatText(n \div 10), DigitText(n % 10))

IntText(n) == IF n < 0 THEN <<"-">> \o NatText(0 - n) ELSE NatText(n)

Comparand(amount, unit) == IntText(amount) \o <<" ">> \o unit

DayUnits == {DAY, DAY \o <<"s">>}
MonthUnits == {MONTH, MONTH \o <<"s">>}
OtherUnits == {<<"w", "e", "e", "k">>}

\* amounts of months, and the amounts of days they are claimed to equal
MonthAmounts == 0..MaxAmount
DayAmounts == (-1..MaxAmount) \cup {DaysPerMonth * n : n \in MonthAmounts}

DateComparands ==
    {Comparand(n, u) : n \in DayAmounts, u \in DayUnits \cup OtherUnits}
      \cup {Comparand(n, u) : n \in MonthAmounts, u \in MonthUnits}
      \cup {<<>>, <<"s">>, <<"7">>, <<" ", "1", " ", " ", "d", "a", "y", " ">>}

\* the clock runs far enough to pass every threshold
DateHorizon == timedelta(DaysPerMonth * MaxAmount + 1)

Timestamps == {[iso |-> TRUE, instant |-> t] : t \in {0, 1}}
                 \cup {NoTime}

Tick(limit) ==
    /\ now < limit
    /\ now' = now + 1

DateInit ==
    /\ now = 0
    /\ StrIdle
    /\ ResIdle
    /\ ExeIdle
    /\ FetchIdle
    /\ ParIdle
    /\ d_rule \in [field_name : {RECEIVED_TIME}, predicate : RuleKind,
                   value : DateComparands]
    /\ d_field \in Timestamps
    /\ d_ret = NoCall

CallEvaluateDateRule ==
    /\ d_ret' = evaluate_date_rule(d_rule, d_field, now)
    /\ UNCHANGED <<d_rule, d_field, now, notDate>>

\* time passes between two calls; the outcome of the earlier call is dropped
DateTick ==
    /\ Tick(DateHorizon)
    /\ d_ret' = NoCall
    /\ UNCHANGED <<d_rule, d_field, notDate>>

DateNext == CallEvaluateDateRule \/ DateTick

SpecDate == DateInit /\ [][DateNext]_vars

---------------------------------------------------------------------------
(* load_rules, evaluate_rule, apply_rules *)

\* pydantic's validation of RuleSet(**data): every enumerated field holds a
\* member of its enumeration; the pairing of field and kind, and the text of
\* value, are not looked at
ValidRule(r) ==
    /\ r.field_name \in FieldName
    /\ r.predicate \in RuleKind

ValidAction(a) == a.action_type \in ActionType

ValidRuleSet(data) ==
    /\ \A i \in DOMAIN data.rules : ValidRule(data.rules[i])
    /\ data.rule_predicate \in RulePredicate
    /\ \A i \in DOMAIN data.actions : ValidAction(data.actions[i])

\* Mutant of load_rules: a Rule validated as a sum type keyed by the field
load_rules_keyed(data) ==
    IF /\ ValidRuleSet(data)
       /\ \A i \in DOMAIN data.rules :
             (data.rules[i].field_name = RECEIVED_TIME)
                <=> (data.rules[i].predicate \in DatePredicate)
    THEN Return(TRUE)
    ELSE Raise("ValidationError")

\* the outcome of load_rules; the RuleSet returned is data itself
load_rules(data) ==
    IF ValidRuleSet(data) THEN Return(TRUE) ELSE Raise("ValidationError")

\* current_date: the clock when the rule is evaluated
evaluate_rule(rule, mail, current_date) ==
    LET field_value == mail[rule.field_name] IN
    IF rule.field_name = RECEIVED_TIME
    THEN evaluate_date_rule(rule, field_value, current_date)
    ELSE evaluate_string_rule(rule, field_value)

\* all(results), any(results)
all(results) == \A i \in DOMAIN results : results[i]
any(results) == \E i \in DOMAIN results : results[i]

\* the index of the first rule whose evaluation raises, 0 if none does
FirstRaise(outcomes) ==
    IF \E i \in DOMAIN outcomes : outcomes[i].tag = "raise"
    THEN CHOOSE i \in DOMAIN outcomes :
            /\ outcomes[i].tag = "raise"
            /\ \A j \in 1..(i - 1) : outcomes[j].tag # "raise"
    ELSE 0

\* Mutants of apply_rules: the two modes exchanged; and a resolver that stops
\* evaluating at the first deciding result
apply_rules_exchanged(rs, mail, clock) ==
    LET outcomes == [i \in DOMAIN rs.rules |->
                        evaluate_rule(rs.rules[i], mail, clock[i])]
        results == [i \in DOMAIN outcomes |-> outcomes[i].val]
    IN  IF FirstRaise(outcomes) # 0
        THEN RaiseL(outcomes[FirstRaise(outcomes)].exc)
        ELSE IF rs.rule_predicate = ALL /\ any(results)
        THEN ReturnL(rs.actions)
        ELSE IF rs.rule_predicate = ANY /\ all(results)
        THEN ReturnL(rs.actions)
        ELSE ReturnL(<<>>)

apply_rules_lazy(rs, mail, clock) ==
    LET outcomes == [i \in DOMAIN rs.rules |->
                        evaluate_rule(rs.rules[i], mail, clock[i])]
        Deciding(i) == /\ outcomes[i].tag = "ok"
                       /\ outcomes[i].val = (rs.rule_predicate = ANY)
        seen == {i \in DOMAIN outcomes :
                    \A j \in 1..(i - 1) : ~Deciding(j)}
        results == [i \in DOMAIN outcomes |-> outcomes[i].val]
    IN  IF \E i \in seen : outcomes[i].tag = "raise"
        THEN RaiseL(outcomes[FirstRaise(outcomes)].exc)
        ELSE IF rs.rule_predicate = ALL /\ (\A i \in seen : results[i])
        THEN ReturnL(rs.actions)
        ELSE IF rs.rule_predicate = ANY /\ (\E i \in seen : results[i])
        THEN ReturnL(rs.actions)
        ELSE ReturnL(<<>>)

\* The list comprehension of line 128 evaluates the rules in order and lets
\* the first exception out; clock[i] is the clock when rule i is evaluated.
apply_rules(rs, mail, clock) ==
    LET outcomes == [i \in DOMAIN rs.rules |->
                        evaluate_rule(rs.rules[i], mail, clock[i])]
        results == [i \in DOMAIN outcomes |-> outcomes[i].val]
    IN  IF FirstRaise(outcomes) # 0
        THEN RaiseL(outcomes[FirstRaise(outcomes)].exc)
        ELSE IF rs.rule_predicate = ALL /\ all(results)
        THEN ReturnL(rs.actions)
        ELSE IF rs.rule_predicate = ANY /\ any(results)
        THEN ReturnL(rs.actions)
        ELSE ReturnL(<<>>)

(* The documents and the e-mails of the model *)

Rule(f, k, v) == [field_name |-> f, predicate |-> k, value |-> v]

Action(t, folder) == [action_type |-> t, folder_name |-> folder]

OneDay == Comparand(1, DAY)
OneWeek == Comparand(1, <<"w", "e", "e", "k">>)

RuleDocs ==
    \* text rules
    {Rule(f, k, <<"s">>) : f \in {SENDER, SUBJECT},
                           k \in {CONTAINS, DOES_NOT_EQUAL}}
    \* date rules, with a unit the evaluator knows and one it does not
      \cup {Rule(RECEIVED_TIME, k, v) : k \in DatePredicate,
                                        v \in {OneDay, OneWeek}}
    \* a kind of the other evaluator, and a comparand that is no amount
      \cup {Rule(SENDER, IS_LESS_THAN, OneDay),
            Rule(RECEIVED_TIME, CONTAINS, OneDay),
            Rule(RECEIVED_TIME, IS_LESS_THAN, <<"s">>)}
    \* values outside the enumerations
      \cup {Rule("from", CONTAINS, <<"s">>),
            Rule(SENDER, "matches", <<"s">>)}

ActionDocs ==
    {<<>>,
     <<Action(MARK_AS_UNREAD, None), Action(MOVE_TO_MAILBOX, "Important"),
       Action(MARK_AS_UNREAD, None)>>,
     <<Action("delete", None)>>}

RuleLists == UNION {[1..k -> RuleDocs] : k \in 0..MaxRules}

Documents ==
    [rules : RuleLists, rule_predicate : RulePredicate \cup {"none"},
     actions : ActionDocs]

Emails ==
    [message_id : {"m1"}, sender : {<<"S">>, <<"a">>}, recipient : {<<"a">>},
     message : {<<>>}, subject : {<<"s">>, <<"a">>},
     received_time : {[iso |-> TRUE, instant |-> 0]}]
      \cup {[NoEmail EXCEPT !.message_id = "m2", !.sender = <<"s">>]}

\* the clock readings of one call on n rules: the clock does not go back,
\* and moves by at most one tick during the call
ClockReadings(n) ==
    {c \in [1..n -> now..(IF now < MaxNow THEN now + 1 ELSE now)] :
        \A i \in 1..(n - 1) : c[i] <= c[i + 1]}

Init ==
    /\ now = 0
    /\ StrIdle
    /\ DateIdle
    /\ ResIdle
    /\ ExeIdle
    /\ FetchIdle
    /\ ParIdle

\* main, line 205
LoadRules ==
    /\ load_ret.tag = "none"
    /\ \E data \in Documents :
          /\ doc' = data
          /\ load_ret' = load_rules(data)
          /\ ruleset' = IF load_rules(data).tag = "ok" THEN data ELSE NoDoc
    /\ UNCHANGED <<now, email, samples, ret, notRes>>

\* main, line 211, for one e-mail of the store
ApplyRules ==
    /\ load_ret.tag = "ok"
    /\ ret.tag = "none"
    /\ \E mail \in Emails, clock \in ClockReadings(Len(ruleset.rules)) :
          /\ email' = mail
          /\ samples' = clock
          /\ ret' = apply_rules(ruleset, mail, clock)
          /\ now' = IF clock = <<>> THEN now ELSE clock[Len(clock)]
    /\ UNCHANGED <<doc, load_ret, ruleset, notRes>>

\* main, line 210: the loop goes on to the next e-mail of the store
NextEmail ==
    /\ ret.tag = "ok"
    /\ email' = NoEmail
    /\ samples' = <<>>
    /\ ret' = NoCallL
    /\ UNCHANGED <<now, doc, load_ret, ruleset, notRes>>

\* time passes between two calls
ResTick ==
    /\ load_ret.tag = "ok"
    /\ ret.tag = "none"
    /\ Tick(MaxNow)
    /\ UNCHANGED <<resVars, notRes>>

Next == LoadRules \/ ApplyRules \/ NextEmail \/ ResTick

Spec == Init /\ [][Next]_vars

---------------------------------------------------------------------------
(* execute_actions and get_or_create_label, one step per provider call *)

\* The provider (users().labels(), users().messages()) as the dispatcher
\* sees it: labels().list returns the labels that exist, labels().create
\* adds a label under an id no label has, messages().modify adds label ids
\* to a message and removes label ids from it.
LabelId(n) == <<"Label", n>>

FreshLabel(ls, name) ==
    [id |-> LabelId(Cardinality(ls)), name |-> name]

Modified(attached, add, remove) == (attached \cup add) \ remove

\* Mutant of FindLabel: a lookup that never finds the name
FindLabel_never(listed, label_name) == {}

\* lines 187-189: the ids of the listed labels of that name
FindLabel(listed, label_name) ==
    {l.id : l \in {k \in listed : k.name = label_name}}

Call(op, arg) == [op |-> op, action |-> x_idx, arg |-> arg]

FolderNames == {"Important", "Later"}

ActionChoices ==
    {Action(MARK_AS_READ, None), Action(MARK_AS_UNREAD, None)}
      \cup {Action(MOVE_TO_MAILBOX, f) : f \in FolderNames \cup {None}}

ActionLists == UNION {[1..k -> ActionChoices] : k \in 0..MaxActions}

\* the provider before the dispatcher runs: the system label, and perhaps a
\* label of one of the folder names already; the message read or unread
ExecInit ==
    /\ now = 0
    /\ StrIdle
    /\ DateIdle
    /\ ResIdle
    /\ FetchIdle
    /\ ParIdle
    /\ labels \in {{[id |-> UNREAD, name |-> "UNREAD"]},
                   {[id |-> UNREAD, name |-> "UNREAD"],
                    [id |-> LabelId(1), name |-> "Later"]}}
    /\ msg_labels \in [MessageIds -> {{}, {UNREAD}}]
    /\ x_pc = "idle"
    /\ x_email = ""
    /\ x_actions = <<>>
    /\ x_idx = 0
    /\ x_label_id = NoId
    /\ x_calls = <<>>
    /\ x_exc = ""
    /\ x_runs = 0
    /\ x_errors = FALSE
    /\ x_first = <<{}, [m \in MessageIds |-> {}]>>

\* main, line 213: execute_actions(service, email, actions_to_execute)
Execute ==
    /\ x_pc = "idle"
    /\ \E m \in MessageIds, actions \in ActionLists :
          /\ x_email' = m
          /\ x_actions' = actions
    /\ x_pc' = "loop"
    /\ x_idx' = 1
    /\ x_calls' = <<>>
    /\ x_runs' = 1
    /\ UNCHANGED <<labels, msg_labels, x_label_id, x_exc, x_errors, x_first,
                   notExe>>

\* the same call once more, after the first has returned
ExecuteAgain ==
    /\ x_pc = "done"
    /\ x_runs = 1
    /\ x_pc' = "loop"
    /\ x_idx' = 1
    /\ x_calls' = <<>>
    /\ x_runs' = 2
    /\ UNCHANGED <<labels, msg_labels, x_email, x_actions, x_label_id, x_exc,
                   x_errors, x_first, notExe>>

AtAction(t) ==
    /\ x_pc = "loop"
    /\ x_idx <= Len(x_actions)
    /\ x_actions[x_idx].action_type = t

\* lines 168-171
MarkAsRead ==
    /\ AtAction(MARK_AS_READ)
    /\ msg_labels' = [msg_labels EXCEPT
                        ![x_email] = Modified(@, {}, {UNREAD})]
    /\ x_calls' = Append(x_calls, Call("modify_remove", UNREAD))
    /\ x_idx' = x_idx + 1
    /\ UNCHANGED <<labels, x_pc, x_email, x_actions, x_label_id, x_exc,
                   x_runs, x_errors, x_first, notExe>>

\* lines 172-175
MarkAsUnread ==
    /\ AtAction(MARK_AS_UNREAD)
    /\ msg_labels' = [msg_labels EXCEPT
                        ![x_email] = Modified(@, {UNREAD}, {})]
    /\ x_calls' = Append(x_calls, Call("modify_add", UNREAD))
    /\ x_idx' = x_idx + 1
    /\ UNCHANGED <<labels, x_pc, x_email, x_actions, x_label_id, x_exc,
                   x_runs, x_errors, x_first, notExe>>

\* lines 176-177 and 183-184: the call of get_or_create_label; the
\* validation of its argument label_name: str rejects None
EnterGetOrCreateLabel ==
    /\ AtAction(MOVE_TO_MAILBOX)
    /\ IF x_actions[x_idx].folder_name = None
       THEN /\ x_pc' = "raised"
            /\ x_exc' = "ValidationError"
       ELSE /\ x_pc' = "list"
            /\ x_exc' = x_exc
    /\ UNCHANGED <<labels, msg_labels, x_email, x_actions, x_idx, x_label_id,
                   x_calls, x_runs, x_errors, x_first, notExe>>

\* lines 186-189: labels().list answers, and the name is looked up
ListLabels ==
    /\ x_pc = "list"
    /\ LET found == FindLabel(labels, x_actions[x_idx].folder_name) IN
       IF found # {}
       THEN /\ x_label_id' = CHOOSE id \in found : TRUE
            /\ x_pc' = "modify"
       ELSE /\ x_label_id' = x_label_id
            /\ x_pc' = "create"
    /\ x_calls' = Append(x_calls, Call("list", NoId))
    /\ UNCHANGED <<labels, msg_labels, x_email, x_actions, x_idx, x_exc,
                   x_runs, x_errors, x_first, notExe>>

\* lines 191-197: labels().create answers
CreateLabel ==
    /\ x_pc = "create"
    /\ LET new == FreshLabel(labels, x_actions[x_idx].folder_name) IN
          /\ labels' = labels \cup {new}
          /\ x_label_id' = new.id
          /\ x_calls' = Append(x_calls, Call("create", new.id))
    /\ x_pc' = "modify"
    /\ UNCHANGED <<msg_labels, x_email, x_actions, x_idx, x_exc, x_runs,
                   x_errors, x_first, notExe>>

\* lines 198-200, 183-184: labels().list or labels().create raises; the
\* handler logs and returns None, which the validation of the return value
\* (validate_return=True, -> str) rejects: a ValidationError leaves
\* get_or_create_label, and execute_actions, which does not catch it
LabelResolutionFails ==
    /\ x_pc \in {"list", "create"}
    /\ x_calls' = Append(x_calls, Call(x_pc \o "_error", NoId))
    /\ x_errors' = TRUE
    /\ x_label_id' = NoId
    /\ x_pc' = "raised"
    /\ x_exc' = "ValidationError"
    /\ UNCHANGED <<labels, msg_labels, x_email, x_actions, x_idx, x_runs,
                   x_first, notExe>>

\* lines 178-180
AttachLabel ==
    /\ x_pc = "modify"
    /\ msg_labels' = [msg_labels EXCEPT
                        ![x_email] = Modified(@, {x_label_id}, {})]
    /\ x_calls' = Append(x_calls, Call("modify_add", x_label_id))
    /\ x_idx' = x_idx + 1
    /\ x_pc' = "loop"
    /\ UNCHANGED <<labels, x_email, x_actions, x_label_id, x_exc, x_runs,
                   x_errors, x_first, notExe>>

\* line 167: the list is exhausted, execute_actions returns
ReturnFromExecute ==
    /\ x_pc = "loop"
    /\ x_idx > Len(x_actions)
    /\ x_pc' = "done"
    /\ x_first' = IF x_runs = 1 THEN <<labels, msg_labels>> ELSE x_first
    /\ UNCHANGED <<labels, msg_labels, x_email, x_actions, x_idx, x_label_id,
                   x_calls, x_exc, x_runs, x_errors, notExe>>

ExecNext ==
    \/ Execute
    \/ ExecuteAgain
    \/ MarkAsRead
    \/ MarkAsUnread
    \/ EnterGetOrCreateLabel
    \/ ListLabels
    \/ CreateLabel
    \/ LabelResolutionFails
    \/ AttachLabel
    \/ ReturnFromExecute

SpecExec == ExecInit /\ [][ExecNext]_vars

---------------------------------------------------------------------------
(* execute_actions called in parallel, one call for each of several e-mails *)
(* on one service; the calls interleave at their provider requests         *)

\* the action lists of the parallel calls: a move, alone or next to a
\* marker action
ParActionLists ==
    UNION {{<<Action(MOVE_TO_MAILBOX, f)>>,
            <<Action(MARK_AS_READ, None), Action(MOVE_TO_MAILBOX, f)>>,
            <<Action(MOVE_TO_MAILBOX, f), Action(MARK_AS_UNREAD, None)>>} :
           f \in FolderNames}

\* the caller has started execute_actions(service, email_i, actions_i) for
\* every dispatcher i; no call has made a provider request yet
ParInit ==
    /\ now = 0
    /\ StrIdle
    /\ DateIdle
    /\ ResIdle
    /\ ExeIdle
    /\ FetchIdle
    /\ c_initial \in {{[id |-> UNREAD, name |-> "UNREAD"]},
                      {[id |-> UNREAD, name |-> "UNREAD"],
                       [id |-> LabelId(1), name |-> "Later"]}}
    /\ c_labels = c_initial
    /\ c_msg_labels = [i \in Dispatchers |-> {UNREAD}]
    /\ c_pc = [i \in Dispatchers |-> "loop"]
    /\ c_actions \in [Dispatchers -> ParActionLists]
    /\ c_idx = [i \in Dispatchers |-> 1]
    /\ c_label_id = [i \in Dispatchers |-> NoId]
    /\ c_exc = [i \in Dispatchers |-> ""]
    /\ c_creates = [f \in FolderNames |-> 0]
    /\ c_attached = [i \in Dispatchers |-> {}]
    /\ c_errors = FALSE

ParAtAction(i, t) ==
    /\ c_pc[i] = "loop"
    /\ c_idx[i] <= Len(c_actions[i])
    /\ c_actions[i][c_idx[i]].action_type = t

\* action.folder_name of the move that dispatcher i has under way
ParFolder(i) == c_actions[i][c_idx[i]].folder_name

\* lines 168-171
ParMarkAsRead(i) ==
    /\ ParAtAction(i, MARK_AS_READ)
    /\ c_msg_labels' = [c_msg_labels EXCEPT ![i] = Modified(@, {}, {UNREAD})]
    /\ c_idx' = [c_idx EXCEPT ![i] = @ + 1]
    /\ UNCHANGED <<c_initial, c_labels, c_pc, c_actions, c_label_id, c_exc,
                   c_creates, c_attached, c_errors, notPar>>

\* lines 172-175
ParMarkAsUnread(i) ==
    /\ ParAtAction(i, MARK_AS_UNREAD)
    /\ c_msg_labels' = [c_msg_labels EXCEPT ![i] = Modified(@, {UNREAD}, {})]
    /\ c_idx' = [c_idx EXCEPT ![i] = @ + 1]
    /\ UNCHANGED <<c_initial, c_labels, c_pc, c_actions, c_label_id, c_exc,
                   c_creates, c_attached, c_errors, notPar>>

\* lines 176-177 and 183-184: the call of get_or_create_label
ParEnterGetOrCreateLabel(i) ==
    /\ ParAtAction(i, MOVE_TO_MAILBOX)
    /\ IF ParFolder(i) = None
       THEN /\ c_pc' = [c_pc EXCEPT ![i] = "raised"]
            /\ c_exc' = [c_exc EXCEPT ![i] = "ValidationError"]
       ELSE /\ c_pc' = [c_pc EXCEPT ![i] = "list"]
            /\ c_exc' = c_exc
    /\ UNCHANGED <<c_initial, c_labels, c_msg_labels, c_actions, c_idx,
                   c_label_id, c_creates, c_attached, c_errors, notPar>>

\* lines 186-189: labels().list answers dispatcher i with the labels that
\* exist at that moment, and the name is looked up among them
ParListLabels(i) ==
    /\ c_pc[i] = "list"
    /\ LET found == FindLabel(c_labels, ParFolder(i)) IN
       IF found # {}
       THEN /\ \E id \in found : c_label_id' = [c_label_id EXCEPT ![i] = id]
            /\ c_pc' = [c_pc EXCEPT ![i] = "modify"]
       ELSE /\ c_label_id' = c_label_id
            /\ c_pc' = [c_pc EXCEPT ![i] = "create"]
    /\ UNCHANGED <<c_initial, c_labels, c_msg_labels, c_actions, c_idx, c_exc,
                   c_creates, c_attached, c_errors, notPar>>

\* lines 191-197: labels().create is issued on the strength of the listing
\* read earlier, and the provider answers with a new label, also when
\* another call has created a label of the name since the listing
ParCreateLabel(i) ==
    /\ c_pc[i] = "create"
    /\ LET new == FreshLabel(c_labels, ParFolder(i)) IN
          /\ c_labels' = c_labels \cup {new}
          /\ c_label_id' = [c_label_id EXCEPT ![i] = new.id]
    /\ c_creates' = [c_creates EXCEPT ![ParFolder(i)] = @ + 1]
    /\ c_pc' = [c_pc EXCEPT ![i] = "modify"]
    /\ UNCHANGED <<c_initial, c_msg_labels, c_actions, c_idx, c_exc,
                   c_attached, c_errors, notPar>>

\* lines 191-200, 183-184: labels().create is issued as above, and the
\* provider refuses a second label of a name that exists by now: the
\* request raises, the handler returns None, and the validation of the
\* return value rejects it
ParCreateRefused(i) ==
    /\ c_pc[i] = "create"
    /\ FindLabel(c_labels, ParFolder(i)) # {}
    /\ c_creates' = [c_creates EXCEPT ![ParFolder(i)] = @ + 1]
    /\ c_label_id' = [c_label_id EXCEPT ![i] = NoId]
    /\ c_pc' = [c_pc EXCEPT ![i] = "raised"]
    /\ c_exc' = [c_exc EXCEPT ![i] = "ValidationError"]
    /\ UNCHANGED <<c_initial, c_labels, c_msg_labels, c_actions, c_idx,
                   c_attached, c_errors, notPar>>

\* lines 198-200, 183-184: the provider fails labels().list or
\* labels().create of itself; the handler returns None, which the
\* validation of the return value rejects
ParLabelResolutionFails(i) ==
    /\ c_pc[i] \in {"list", "create"}
    /\ c_creates' = IF c_pc[i] = "create"
                    THEN [c_creates EXCEPT ![ParFolder(i)] = @ + 1]
                    ELSE c_creates
    /\ c_errors' = TRUE
    /\ c_label_id' = [c_label_id EXCEPT ![i] = NoId]
    /\ c_pc' = [c_pc EXCEPT ![i] = "raised"]
    /\ c_exc' = [c_exc EXCEPT ![i] = "ValidationError"]
    /\ UNCHANGED <<c_initial, c_labels, c_msg_labels, c_actions, c_idx,
                   c_attached, notPar>>

\* lines 178-180
ParAttachLabel(i) ==
    /\ c_pc[i] = "modify"
    /\ c_msg_labels' = [c_msg_labels EXCEPT
                          ![i] = Modified(@, {c_label_id[i]}, {})]
    /\ c_attached' = [c_attached EXCEPT
                        ![i] = @ \cup {<<ParFolder(i), c_label_id[i]>>}]
    /\ c_idx' = [c_idx EXCEPT ![i] = @ + 1]
    /\ c_pc' = [c_pc EXCEPT ![i] = "loop"]
    /\ UNCHANGED <<c_initial, c_labels, c_actions, c_label_id, c_exc,
                   c_creates, c_errors, notPar>>

\* line 167: the list is exhausted, execute_actions returns
ParReturnFromExecute(i) ==
    /\ c_pc[i] = "loop"
    /\ c_idx[i] > Len(c_actions[i])
    /\ c_pc' = [c_pc EXCEPT ![i] = "done"]
    /\ UNCHANGED <<c_initial, c_labels, c_msg_labels, c_actions, c_idx,
                   c_label_id, c_exc, c_creates, c_attached, c_errors,
                   notPar>>

ParNext ==
    \E i \in Dispatchers :
        \/ ParMarkAsRead(i)
        \/ ParMarkAsUnread(i)
        \/ ParEnterGetOrCreateLabel(i)
        \/ ParListLabels(i)
        \/ ParCreateLabel(i)
        \/ ParCreateRefused(i)
        \/ ParLabelResolutionFails(i)
        \/ ParAttachLabel(i)
        \/ ParReturnFromExecute(i)

SpecPar == ParInit /\ [][ParNext]_vars

---------------------------------------------------------------------------
(* fetch_emails, one step per provider request *)

\* The provider serves the mailbox as a chain of pages: the response to the
\* request for page k holds the message ids of the page (the key "messages"
\* is missing when there are none) and, unless the page is the last, a
\* nextPageToken that names page k + 1.
RECURSIVE Chain(_, _)
Chain(sizes, first) ==
    IF sizes = <<>> THEN <<>>
    ELSE <<[i \in 1..sizes[1] |-> first + i - 1]>>
            \o Chain(Tail(sizes), first + sizes[1])

Mailboxes ==
    {Chain(sizes, 1) :
        sizes \in UNION {[1..k -> 0..MaxPageSize] : k \in 1..MaxPages}}

HasNextPageToken(page) == page < Len(f_pages)

\* messages[:n]
Slice(messages, n) ==
    IF n >= 0
    THEN SubSeq(messages, 1, IF n < Len(messages) THEN n ELSE Len(messages))
    ELSE SubSeq(messages, 1, Len(messages) + n)

\* Mutant of MorePages: a loop that also goes on when max_emails ids are
\* already collected
MorePages_inclusive(page, messages, max_emails) ==
    HasNextPageToken(page) /\ Len(messages) <= max_emails

\* line 28: the condition of the loop
MorePages(page, messages, max_emails) ==
    HasNextPageToken(page) /\ Len(messages) < max_emails

FetchInit ==
    /\ now = 0
    /\ StrIdle
    /\ DateIdle
    /\ ResIdle
    /\ ExeIdle
    /\ ParIdle
    /\ f_pages \in Mailboxes
    /\ f_max \in -1..MaxEmails
    /\ f_pc = "start"
    /\ f_results = 0
    /\ f_messages = <<>>
    /\ f_emails = <<>>
    /\ f_requests = 0

\* lines 25-26
ListFirstPage ==
    /\ f_pc = "start"
    /\ f_results' = 1
    /\ f_messages' = f_pages[1]
    /\ f_requests' = f_requests + 1
    /\ f_pc' = "paging"
    /\ UNCHANGED <<f_pages, f_max, f_emails, notFetch>>

\* lines 28-36
ListNextPage ==
    /\ f_pc = "paging"
    /\ MorePages(f_results, f_messages, f_max)
    /\ f_results' = f_results + 1
    /\ f_messages' = f_messages \o f_pages[f_results + 1]
    /\ f_requests' = f_requests + 1
    /\ UNCHANGED <<f_pages, f_max, f_pc, f_emails, notFetch>>

\* line 38
Truncate ==
    /\ f_pc = "paging"
    /\ ~MorePages(f_results, f_messages, f_max)
    /\ f_messages' = Slice(f_messages, f_max)
    /\ f_pc' = "get"
    /\ UNCHANGED <<f_pages, f_max, f_results, f_emails, f_requests, notFetch>>

\* lines 41-80: messages().get for the next id, and the Email made of it
GetMessage ==
    /\ f_pc = "get"
    /\ Len(f_emails) < Len(f_messages)
    /\ f_emails' = Append(f_emails,
                          [message_id |-> f_messages[Len(f_emails) + 1]])
    /\ UNCHANGED <<f_pages, f_max, f_pc, f_results, f_messages, f_requests,
                   notFetch>>

\* line 82
ReturnEmails ==
    /\ f_pc = "get"
    /\ Len(f_emails) = Len(f_messages)
    /\ f_pc' = "done"
    /\ UNCHANGED <<f_pages, f_max, f_results, f_messages, f_emails,
                   f_requests, notFetch>>

FetchNext ==
    \/ ListFirstPage
    \/ ListNextPage
    \/ Truncate
    \/ GetMessage
    \/ ReturnEmails

\* fetch_emails is sequential code: a step that can be taken is taken
SpecFetch == FetchInit /\ [][FetchNext]_vars /\ WF_vars(FetchNext)

---------------------------------------------------------------------------
(* Claims about evaluate_string_rule *)

WithKind(rule, kind) == [rule EXCEPT !.predicate = kind]

\* C5: for every comparand and every field value, the result with kind
\* "does not contain" is the negation of the result with kind "contains",
\* and the result with kind "does not equal" is the negation of the result
\* with kind "equals".
C5_NegatedKinds ==
    s_ret.tag # "none" =>
        /\ s_rule.predicate = DOES_NOT_CONTAIN =>
              /\ s_ret.tag = "ok"
              /\ evaluate_string_rule(WithKind(s_rule, CONTAINS), s_field).tag = "ok"
              /\ s_ret.val =
                   ~evaluate_string_rule(WithKind(s_rule, CONTAINS), s_field).val
        /\ s_rule.predicate = DOES_NOT_EQUAL =>
              /\ s_ret.tag = "ok"
              /\ evaluate_string_rule(WithKind(s_rule, EQUALS), s_field).tag = "ok"
              /\ s_ret.val =
                   ~evaluate_string_rule(WithKind(s_rule, EQUALS), s_field).val

\* a negated kind has answered true on texts that differ only in case from
\* texts on which it answers false
C5_Witness ==
    /\ s_ret = Return(TRUE)
    /\ s_rule.predicate = DOES_NOT_CONTAIN
    /\ s_rule.value = <<"S">>
    /\ s_field = <<"a", "A">>

\* str.swapcase() of one character: the other case of a letter
SwapCase(c) ==
    CASE c = "a" -> "A"
      [] c = "A" -> "a"
      [] c = "s" -> "S"
      [] c = "S" -> "s"
      [] c = LongS -> "S"
      [] OTHER -> c

AsciiLetters == {"a", "A", "s", "S"}

SwapAt(s, i) == [s EXCEPT ![i] = SwapCase(s[i])]

\* the outcome is the same after the case of character i of the comparand,
\* and of character j of the field value, is changed
SameAfterSwap(chars) ==
    /\ \A i \in DOMAIN s_rule.value :
          s_rule.value[i] \in chars =>
             evaluate_string_rule(
                [s_rule EXCEPT !.value = SwapAt(s_rule.value, i)], s_field) = s_ret
    /\ \A j \in DOMAIN s_field :
          s_field[j] \in chars =>
             evaluate_string_rule(s_rule, SwapAt(s_field, j)) = s_ret

\* C8, as claimed: for every string kind, the result is unchanged when the
\* letter case of any character of the comparand or of the field value is
\* changed.
C8_AnyCharacter ==
    (s_ret.tag = "ok" /\ s_rule.predicate \in StringPredicate) =>
        SameAfterSwap(Alphabet)

\* C8, amended: for every string kind, the result is unchanged when the
\* letter case of any ASCII letter of the comparand or of the field value is
\* changed.
C8_AsciiLetters ==
    (s_ret.tag = "ok" /\ s_rule.predicate \in StringPredicate) =>
        SameAfterSwap(AsciiLetters)

\* an upper-case comparand is found in a lower-case field value
C8_Witness ==
    /\ s_ret = Return(TRUE)
    /\ s_rule.predicate = CONTAINS
    /\ s_rule.value = <<"S", "A">>
    /\ s_field = <<"a", "s", "a">>

---------------------------------------------------------------------------
(* Claims about evaluate_date_rule *)

\* the age of the e-mail at the call: the clock read by the call minus the
\* instant of received_time
Age == now - d_field.instant

DateCallMade ==
    /\ d_ret.tag # "none"
    /\ d_field.iso
    /\ d_rule.predicate \in DatePredicate

\* C6: with comparand "<N> day..." and an e-mail of age A, "is less than"
\* returns true iff A < N days and "is greater than" returns true iff
\* A > N days; the two kinds are never both true, and both are false when A
\* is N days exactly.
C6_DayThreshold ==
    DateCallMade =>
        \A n \in DayAmounts, u \in DayUnits :
            d_rule.value = Comparand(n, u) =>
                LET lt == evaluate_date_rule(WithKind(d_rule, IS_LESS_THAN),
                                             d_field, now)
                    gt == evaluate_date_rule(WithKind(d_rule, IS_GREATER_THAN),
                                             d_field, now)
                IN  /\ d_rule.predicate = IS_LESS_THAN =>
                          d_ret = Return(Age < n * TicksPerDay)
                    /\ d_rule.predicate = IS_GREATER_THAN =>
                          d_ret = Return(Age > n * TicksPerDay)
                    /\ lt.tag = "ok" /\ gt.tag = "ok"
                    /\ ~(lt.val /\ gt.val)
                    /\ Age = n * TicksPerDay => ~lt.val /\ ~gt.val

\* an e-mail exactly one day old is not less than "1 days" old
C6_Witness ==
    /\ d_rule.predicate = IS_LESS_THAN
    /\ d_rule.value = Comparand(1, DAY \o <<"s">>)
    /\ d_field.iso
    /\ Age = TicksPerDay
    /\ d_ret = Return(FALSE)

\* C7: for every N >= 0, every date kind and every age, comparand
\* "<N> month..." gives the result of comparand "<30*N> days".
C7_MonthIsThirtyDays ==
    DateCallMade =>
        \A n \in MonthAmounts, u \in MonthUnits :
            d_rule.value = Comparand(n, u) =>
                d_ret = evaluate_date_rule(
                            [d_rule EXCEPT !.value = Comparand(30 * n, DAY \o <<"s">>)],
                            d_field, now)

\* an e-mail one tick older than 30 days is more than "1 months" old
C7_Witness ==
    /\ d_rule.predicate = IS_GREATER_THAN
    /\ d_rule.value = Comparand(1, MONTH \o <<"s">>)
    /\ d_field.iso
    /\ Age = 30 * TicksPerDay + 1
    /\ d_ret = Return(TRUE)

---------------------------------------------------------------------------
(* Claims about load_rules and apply_rules *)

\* the outcome of each predicate of the call, at the clock it was evaluated
Evaluated(i) == evaluate_rule(ruleset.rules[i], email, samples[i])

Predicates == DOMAIN ruleset.rules

ApplyCalled == ret.tag # "none"

NoPredicateRaises == \A i \in Predicates : Evaluated(i).tag = "ok"

Matches ==
    IF ruleset.rule_predicate = "all"
    THEN \A i \in Predicates : Evaluated(i).val = TRUE
    ELSE \E i \in Predicates : Evaluated(i).val = TRUE

\* C1: when no predicate raises, apply_rules returns exactly ruleset.actions
\* (same elements, same order) if the rule set matches and the empty list
\* otherwise; "all" matches iff every predicate is true (true when there is
\* none), "any" iff at least one is (false when there is none).
C1_ActionsIffMatched ==
    (ApplyCalled /\ NoPredicateRaises) =>
        ret = ReturnL(IF Matches THEN ruleset.actions ELSE <<>>)

\* mode "any", predicates [false, true]: the three actions come back, the
\* repeated one twice
C1_Witness ==
    /\ ApplyCalled /\ NoPredicateRaises
    /\ ruleset.rule_predicate = "any"
    /\ Len(ruleset.rules) = 2
    /\ ~Evaluated(1).val /\ Evaluated(2).val
    /\ Len(ret.val) = 3
    /\ ret.val[1] = ret.val[3]

\* the errors of a malformed rule: an unknown unit, a kind of the other
\* evaluator
ConfigurationErrors ==
    {"ValueError: Invalid time unit", "ValueError: Invalid date predicate",
     "ValueError: Invalid string predicate"}

RaisesConfigurationError(i) ==
    /\ Evaluated(i).tag = "raise"
    /\ Evaluated(i).exc \in ConfigurationErrors

\* C2: if evaluating a predicate raises a configuration error, apply_rules
\* fails and returns no action list, whatever the mode, the position of the
\* faulty predicate and the results of the others; the error it fails with
\* is that of the first predicate that raises.
C2_ErrorPropagates ==
    (ApplyCalled /\ \E i \in Predicates : RaisesConfigurationError(i)) =>
        /\ ret.tag = "raise"
        /\ ret.val = <<>>
        /\ \E i \in Predicates :
              /\ Evaluated(i).tag = "raise"
              /\ \A j \in 1..(i - 1) : Evaluated(j).tag = "ok"
              /\ ret.exc = Evaluated(i).exc
        /\ (\A i \in Predicates : Evaluated(i).tag = "raise"
                                     => RaisesConfigurationError(i))
              => ret.exc \in ConfigurationErrors

\* mode "any", a true predicate followed by one with an unknown unit
C2_Witness ==
    /\ ApplyCalled
    /\ ruleset.rule_predicate = "any"
    /\ Len(ruleset.rules) = 2
    /\ Evaluated(1) = Return(TRUE)
    /\ Evaluated(2) = Raise("ValueError: Invalid time unit")
    /\ ret = RaiseL("ValueError: Invalid time unit")

\* the predicate invariant of the rule model: received_time goes with a date
\* kind and a comparand "<integer> <unit>", unit starting with day or month;
\* a text field goes with a string kind
IsDateComparand(v) ==
    /\ Len(split(v)) = 2
    /\ IsIntLiteral(split(v)[1])
    /\ startswith(split(v)[2], DAY) \/ startswith(split(v)[2], MONTH)

PredicateInvariant(r) ==
    IF r.field_name = "received_time"
    THEN r.predicate \in {"is less than", "is greater than"}
            /\ IsDateComparand(r.value)
    ELSE r.predicate \in {"contains", "does not contain", "equals",
                          "does not equal"}

KindOfOtherEvaluator(r) ==
    (r.field_name = "received_time")
        <=> (r.predicate \in {"contains", "does not contain", "equals",
                              "does not equal"})

InEnumerations(data) ==
    /\ \A i \in DOMAIN data.rules :
          /\ data.rules[i].field_name \in
                {"sender", "recipient", "subject", "message", "received_time"}
          /\ data.rules[i].predicate \in
                {"contains", "does not contain", "equals", "does not equal",
                 "is less than", "is greater than"}
    /\ data.rule_predicate \in {"all", "any"}
    /\ \A i \in DOMAIN data.actions :
          data.actions[i].action_type \in
             {"mark_as_read", "mark_as_unread", "move_to_mailbox"}

---------------------------------------------------------------------------
(* Claims about execute_actions *)

CallsOf(ops) == {k \in DOMAIN x_calls : x_calls[k].op \in ops}

\* the actions of the current call whose label resolution met a provider
\* error
ResolutionFailedAt ==
    {x_calls[k].action : k \in CallsOf({"list_error", "create_error"})}

\* C3: when label resolution for a move_to_mailbox action fails with a
\* provider error, execute_actions issues no modify call for that action,
\* does not raise, and still executes every later action of the list.
C3_MoveSkippedOthersRun ==
    \A i \in ResolutionFailedAt :
        /\ \A k \in CallsOf({"modify_add"}) : x_calls[k].action # i
        /\ x_pc # "raised"
        /\ x_pc = "done" =>
              \A j \in (i + 1)..Len(x_actions) :
                  \E k \in DOMAIN x_calls : x_calls[k].action = j

\* C10: with no provider errors, executing the same action list on the same
\* e-mail a second time leaves the labels that exist and the labels attached
\* to the e-mail as the first execution left them, and the second execution
\* creates no label.
C10_SecondRunChangesNothing ==
    (x_runs = 2 /\ ~x_errors) =>
        /\ CallsOf({"create"}) = {}
        /\ x_pc = "done" => <<labels, msg_labels>> = x_first

\* the second execution of a list that moves the e-mail to a folder whose
\* label the first execution had to create
C10_Witness ==
    /\ x_runs = 2 /\ ~x_errors /\ x_pc = "done"
    /\ Len(x_actions) = 2
    /\ x_actions[1] = Action(MARK_AS_UNREAD, None)
    /\ x_actions[2] = Action(MOVE_TO_MAILBOX, "Important")
    /\ Cardinality(labels) = 2
    /\ \E l \in labels : l.name = "Important" /\ l.id \in msg_labels[x_email]
    /\ CallsOf({"list"}) # {}
    /\ CallsOf({"modify_add"}) = {1, 3}

---------------------------------------------------------------------------
(* Claims about parallel calls of execute_actions *)

\* the dispatchers whose action list moves the e-mail to the folder
MoversTo(folder) ==
    {i \in Dispatchers :
        \E k \in DOMAIN c_actions[i] :
            c_actions[i][k] = Action(MOVE_TO_MAILBOX, folder)}

\* the label ids that the moves to the folder have attached to the e-mails
AttachedFor(folder) ==
    {p[2] : p \in {q \in UNION {c_attached[i] : i \in MoversTo(folder)} :
                      q[1] = folder}}

\* C11: when dispatcher calls for different e-mails run in parallel and
\* several of them move their e-mail to the same folder name, for which no
\* label exists yet, then under every interleaving of their labels().list
\* and labels().create requests, create is issued at most once for the name,
\* the provider never holds two labels of the name, and all those e-mails
\* receive the same label id.  (Stated of the runs in which the provider
\* fails no request of itself.)
C11_CreateIssuedOnce ==
    \A folder \in FolderNames :
        (~c_errors
            /\ FindLabel(c_initial, folder) = {}
            /\ Cardinality(MoversTo(folder)) >= 2) =>
                /\ c_creates[folder] <= 1
                /\ Cardinality(FindLabel(c_labels, folder)) <= 1
                /\ Cardinality(AttachedFor(folder)) <= 1

---------------------------------------------------------------------------
(* Claims about fetch_emails *)

RECURSIVE Concat(_)
Concat(pages) ==
    IF pages = <<>> THEN <<>> ELSE pages[1] \o Concat(Tail(pages))

\* every message id of the mailbox, in the provider's order
AllMessages == Concat(f_pages)

Smaller(a, b) == IF a < b THEN a ELSE b

FetchReturned ==
    (f_pc = "done" /\ f_max >= 0) =>
        /\ Len(f_emails) = Smaller(f_max, Len(AllMessages))
        /\ \A i \in DOMAIN f_emails : f_emails[i].message_id = AllMessages[i]

FurtherPageRequested ==
    /\ f_requests >= 1
    /\ f_requests' = f_requests + 1

\* C9: for max_emails >= 0 and a finite chain of pages, fetch_emails
\* terminates and returns exactly min(max_emails, number of messages)
\* e-mails in provider order, and it requests a further page only while the
\* last response carries a nextPageToken and fewer than max_emails ids are
\* collected.
C9_FetchPaged ==
    /\ (f_max >= 0) => <>(f_pc = "done")
    /\ []FetchReturned
    /\ [][(FurtherPageRequested /\ f_max >= 0) =>
             (f_results < Len(f_pages) /\ Len(f_messages) < f_max)]_vars

\* two pages requested, three ids collected, two e-mails returned
C9_Witness ==
    /\ f_pc = "done"
    /\ f_max = 2
    /\ f_pages = <<<<1>>, <<2, 3>>>>
    /\ f_requests = 2
    /\ f_emails = <<[message_id |-> 1], [message_id |-> 2]>>

===========================================================================
